---------------------------- MODULE Spec2Model ----------------------------
(***************************************************************************)
(* The devp2p peer-discovery orchestrator of src/src/main.ts: the class    *)
(* DevP2PDiscovery (registry, round counter, stagnation snapshot, flags,   *)
(* refresh timer, per-peer append log) and the main() driver (seed         *)
(* bootstrap, completion/timeout loop, stop, summary).                     *)
(*                                                                         *)
(* Node's single-threaded event loop runs every callback to its next       *)
(* await; each action below is one such run-to-await segment.              *)
(***************************************************************************)
EXTENDS Integers, Sequences, FiniteSets, Bags, TLC

(***************************************************************************)
(* Bounds of the model.                                                    *)
(***************************************************************************)
\* how many times the transport delivers a peer:added for an identity that
\* is not in the registry (each one starts a handler)
MaxAdds == 2
\* how many times it delivers a peer:removed for an identity that is in it
MaxRemoves == 1
\* how many dpt.refresh() calls may be pending at once
MaxRefreshInFlight == 2
\* the configurations explored: every combination up to these values
MaxRoundsCfg == 2
MinRoundsCfg == 2
MaxNodesCfg == 1
\* insertions in the runs of the shipped configuration
ScenarioAdds == 3
\* entries of config.bootnodes
NumBootnodes == 2
\* the runs in which calls and the transport fail: how many error lines the
\* handlers may print, and what the transport delivers in those runs
MaxFaults == 2
FaultAdds == 1
FaultRemoves == 1

(***************************************************************************)
(* Program constants: config.discovery of main.ts.                         *)
(***************************************************************************)
DefaultMaxDiscoveryRounds == 20
DefaultMinDiscoveryRounds == 3
DefaultMaxNodes == 0

\* the period of the refresh timer and the sleep of main()'s polling loop,
\* in milliseconds
RefreshIntervalMs == 30000
PollIntervalMs == 1000

DefaultConfig ==
    [maxDiscoveryRounds |-> DefaultMaxDiscoveryRounds,
     minDiscoveryRounds |-> DefaultMinDiscoveryRounds,
     maxNodes           |-> DefaultMaxNodes]

Configs ==
    [maxDiscoveryRounds : 0..MaxRoundsCfg,
     minDiscoveryRounds : 0..MinRoundsCfg,
     maxNodes           : 0..MaxNodesCfg]

(***************************************************************************)
(* PeerInfo values the transport may report.  A:30303 appears with two     *)
(* tcp ports (same identity, different record) and host A also appears     *)
(* with a second udp port (same host, different identity).                 *)
(***************************************************************************)
PeerInfo(a, u, t) == [address |-> a, udpPort |-> u, tcpPort |-> t]

PeerInputs ==
    {PeerInfo("A", 30303, 30303), PeerInfo("A", 30303, 30304),
     PeerInfo("A", 30304, 30303), PeerInfo("B", 30303, 30303)}

\* the spec's PeerIdentity: host and discovery port
Identity(peer) == <<peer.address, peer.udpPort>>

\* an identity-colliding key, as if the transport port were part of the key
getPeerIdWithTcp(peer) == <<peer.address, peer.udpPort, peer.tcpPort>>

\* `${peer.address}:${peer.udpPort}`; the pair stands for the string (the
\* port is a number, so the last colon splits the string uniquely)
getPeerId(peer) == <<peer.address, peer.udpPort>>

(***************************************************************************)
(* Node references of config.bootnodes.  A reference is its literal        *)
(* prefix, whether the pattern of that format matches it, and the host and *)
(* port the pattern captures.                                              *)
(***************************************************************************)
NodeRef(prefix, matches, host, port) ==
    [prefix |-> prefix, matches |-> matches, host |-> host, port |-> port]

NodeInputs ==
    {NodeRef("kni://", TRUE, "ston65.node.kaia.io", 32323),
     NodeRef("enode://", TRUE, "10.0.0.1", 30303),
     NodeRef("kni://", FALSE, "", 0),
     NodeRef("http://", FALSE, "", 0)}

\* what dns.resolve(host) does: throws, or returns a list of addresses
DnsOutcomes ==
    {[throws |-> TRUE, addresses |-> <<>>],
     [throws |-> FALSE, addresses |-> <<>>],
     [throws |-> FALSE, addresses |-> <<"10.0.0.2", "10.0.0.3">>]}

\* the dotted-quad test of resolveHost
IsIpLiteral(host) ==
    host \in {"10.0.0.1", "10.0.0.2", "10.0.0.3", "999.999.999.999"}

\* a resolveHost without the test for an empty answer: addresses[0] of an
\* empty array is undefined
resolveHostEmptyUndefined(host, port, dns) ==
    IF IsIpLiteral(host) THEN PeerInfo(host, port, port)
    ELSE IF ~dns.throws
    THEN PeerInfo(IF Len(dns.addresses) # 0 THEN dns.addresses[1]
                  ELSE "undefined", port, port)
    ELSE PeerInfo(host, port, port)

\* resolveHost: a literal address as it is; else the first resolved address;
\* an empty answer throws inside the try and, like a failed lookup, is
\* caught: the host name is used as it is
resolveHost(host, port, dns) ==
    IF IsIpLiteral(host) THEN PeerInfo(host, port, port)
    ELSE IF ~dns.throws /\ Len(dns.addresses) # 0
    THEN PeerInfo(dns.addresses[1], port, port)
    ELSE PeerInfo(host, port, port)

\* nodeToPeerInfo: the peer, or the Error it throws
nodeToPeerInfo(node, dns) ==
    IF node.prefix = "kni://"
    THEN IF node.matches
         THEN [error |-> "none", peer |-> resolveHost(node.host, node.port, dns)]
         ELSE [error |-> "Could not parse Kaia node"]
    ELSE IF node.prefix = "enr:-"
    THEN IF node.matches
         THEN [error |-> "none", peer |-> resolveHost(node.host, node.port, dns)]
         ELSE [error |-> "Could not parse ENR"]
    ELSE IF node.prefix = "enode://"
    THEN IF node.matches
         THEN [error |-> "none", peer |-> resolveHost(node.host, node.port, dns)]
         ELSE [error |-> "Invalid enode format"]
    ELSE [error |-> "Unsupported node format"]

\* how many times nodeToPeerInfo(node) calls dns.resolve
dnsLookups(node) ==
    IF node.prefix \in {"kni://", "enr:-", "enode://"} /\ node.matches
    THEN IF IsIpLiteral(node.host) THEN 0 ELSE 1
    ELSE 0

\* the references and answers the resolver is tried on: every format, with
\* and without a match of its pattern, with a dotted quad, a dotted quad that
\* is no address, and two host names
ResolverHosts ==
    {"10.0.0.1", "999.999.999.999", "ston65.node.kaia.io", "localhost"}

ResolverPorts == {30303, 32323}

ResolverNodes ==
    {NodeRef(prefix, matches, host, port) :
        prefix \in {"kni://", "enr:-", "enode://", "http://"},
        matches \in BOOLEAN, host \in ResolverHosts, port \in ResolverPorts}

VARIABLES
    config,              \* config.discovery, fixed for the run
    budget,              \* what the transport may still deliver, fixed for the run
    discoveredPeers,     \* Map<string, PeerInfo>: a function key -> PeerInfo
    refreshInterval,     \* TRUE iff the setInterval timer is armed
    discoveryRounds,
    lastDiscoveryCount,
    discoveryComplete,
    isStopping,
    stopMessage,         \* the last "Discovery stopped: ..." line printed
    appending,           \* bag of records whose handler awaits the append
    bootstrapping,       \* bag of peers whose handler awaits dpt.bootstrap
    added,               \* how many peer:added events inserted a peer
    resultsFile,         \* the append log: sequence of records
    refreshInFlight,     \* dpt.refresh() calls that have not returned
    mainPc,              \* where main() is
    seedIdx,             \* bootnodes bootstrapped so far
    removals,            \* how many peer:removed events deleted an entry
    summary,             \* the summary document, or NoSummary
    stopSnapshot,        \* the registry and counters as stop() found them
    errorLog,            \* the lines printed by the handlers that only print
    startError,          \* the error main() caught, or "none"
    ceilingExceeded,     \* TRUE iff discoveryTimeout has passed since main() began
    refreshCompleted,    \* how many "Discovery round ... completed" lines were printed
    bootstrapCalls,      \* how many dpt.bootstrap(peer) calls the handlers made
    resolverCall         \* a nodeToPeerInfo call made on its own, or NoCall

vars == <<config, discoveredPeers, refreshInterval, discoveryRounds,
          lastDiscoveryCount, discoveryComplete, isStopping, stopMessage,
          appending, bootstrapping, added, resultsFile, refreshInFlight,
          mainPc, seedIdx, removals, summary, stopSnapshot, budget,
          errorLog, startError, ceilingExceeded, refreshCompleted,
          bootstrapCalls, resolverCall>>

NoSummary == [written |-> FALSE]
NoSnapshot == [taken |-> FALSE]
NoCall == [made |-> FALSE]

EmptyMap == [k \in {} |-> PeerInfo("A", 0, 0)]

\* Map.prototype.size, .has, .set, .delete, .values
MapSize(m) == Cardinality(DOMAIN m)
MapHas(m, k) == k \in DOMAIN m
MapSet(m, k, v) == [x \in (DOMAIN m) \cup {k} |-> IF x = k THEN v ELSE m[x]]
MapDelete(m, k) == [x \in (DOMAIN m) \ {k} |-> m[x]]
MapValues(m) == {m[k] : k \in DOMAIN m}

\* the constructor: empty registry, counters 0, flags false, no timer
Constructed ==
    /\ discoveredPeers = EmptyMap
    /\ refreshInterval = FALSE
    /\ discoveryRounds = 0
    /\ lastDiscoveryCount = 0
    /\ discoveryComplete = FALSE
    /\ isStopping = FALSE
    /\ stopMessage = "none"
    /\ appending = EmptyBag
    /\ bootstrapping = EmptyBag
    /\ added = 0
    /\ resultsFile = <<>>
    /\ refreshInFlight = 0
    /\ mainPc = "start"
    /\ seedIdx = 0
    /\ removals = 0
    /\ summary = NoSummary
    /\ stopSnapshot = NoSnapshot
    /\ errorLog = <<>>
    /\ startError = "none"
    /\ ceilingExceeded = FALSE
    /\ refreshCompleted = 0
    /\ bootstrapCalls = 0

\* what the environment may do in a run: peers inserted and deleted by
\* transport events, error lines printed, and whether the timeout may pass
\* before main() has looked at the clock
Budget(a, r, f, c) == [adds |-> a, removes |-> r, faults |-> f, clock |-> c]

\* runs in which no call into the transport fails, and runs in which the
\* transport reports an error and no peer
Init ==
    /\ config \in Configs
    /\ budget \in {Budget(MaxAdds, MaxRemoves, 0, FALSE), Budget(0, 0, 1, TRUE)}
    /\ Constructed
    /\ resolverCall = NoCall

\* the shipped configuration, with a transport that never drops a peer
InitScenario ==
    /\ config = DefaultConfig
    /\ budget \in {Budget(ScenarioAdds, 0, 0, FALSE), Budget(0, 0, 1, TRUE)}
    /\ Constructed
    /\ resolverCall = NoCall

\* every configuration, with calls that fail and a clock that runs
InitFaults ==
    /\ config \in Configs
    /\ budget = Budget(FaultAdds, FaultRemoves, MaxFaults, TRUE)
    /\ Constructed
    /\ resolverCall = NoCall

\* one configuration, with a transport that drops a peer and finds it again
InitChurn ==
    /\ config = [maxDiscoveryRounds |-> MaxRoundsCfg,
                 minDiscoveryRounds |-> 1,
                 maxNodes           |-> 0]
    /\ budget \in {Budget(MaxAdds, MaxRemoves, 0, FALSE), Budget(0, 0, 1, TRUE)}
    /\ Constructed
    /\ resolverCall = NoCall

\* one configuration: runs with churn and no failure, and runs with every
\* kind of failure
InitFair ==
    /\ config = [maxDiscoveryRounds |-> MaxRoundsCfg,
                 minDiscoveryRounds |-> 1,
                 maxNodes           |-> 0]
    /\ budget \in {Budget(MaxAdds, MaxRemoves, 0, FALSE),
                   Budget(FaultAdds, FaultRemoves, 1, TRUE)}
    /\ Constructed
    /\ resolverCall = NoCall

(***************************************************************************)
(* savePeerToFile builds its record before its first await.                *)
(***************************************************************************)
\* the record written with the discovery port in both port fields
savePeerRecordOnePort(peer, peers, rounds) ==
    [peer |-> PeerInfo(peer.address, peer.udpPort, peer.udpPort),
     totalPeers |-> MapSize(peers),
     discoveryRound |-> rounds]

savePeerRecord(peer, peers, rounds) ==
    [peer |-> PeerInfo(peer.address, peer.udpPort, peer.tcpPort),
     totalPeers |-> MapSize(peers),
     discoveryRound |-> rounds]

(***************************************************************************)
(* peer:added.  Runs up to `await this.savePeerToFile(peer)`: the          *)
(* isStopping return, the has() test, the set(), and the record built by   *)
(* savePeerToFile; the handler is then suspended in the append.            *)
(***************************************************************************)
PeerAddedInsert(peers, peer) ==
    IF MapHas(peers, getPeerId(peer)) THEN peers
    ELSE MapSet(peers, getPeerId(peer), peer)

\* a handler that builds the record before the insertion
PeerAddedRecordsFirst(peer) ==
    /\ IF isStopping \/ MapHas(discoveredPeers, getPeerId(peer))
       THEN UNCHANGED <<discoveredPeers, appending, added>>
       ELSE /\ added < budget.adds
            /\ discoveredPeers' = PeerAddedInsert(discoveredPeers, peer)
            /\ added' = added + 1
            /\ appending' = appending (+) SetToBag({
                   savePeerRecord(peer, discoveredPeers, discoveryRounds)})
    /\ UNCHANGED <<config, budget, resolverCall, refreshCompleted, bootstrapCalls, errorLog, ceilingExceeded, startError, stopSnapshot, refreshInterval, discoveryRounds, lastDiscoveryCount,
                   discoveryComplete, isStopping, stopMessage, bootstrapping,
                   resultsFile, refreshInFlight, mainPc, seedIdx, removals, summary>>

\* the peer:added listener
PeerAdded(peer) ==
    /\ IF isStopping \/ MapHas(discoveredPeers, getPeerId(peer))
       THEN UNCHANGED <<discoveredPeers, appending, added>>
       ELSE /\ added < budget.adds
            /\ discoveredPeers' = PeerAddedInsert(discoveredPeers, peer)
            /\ added' = added + 1
            /\ appending' = appending (+) SetToBag({
                   savePeerRecord(peer, discoveredPeers', discoveryRounds)})
    /\ UNCHANGED <<config, budget, resolverCall, refreshCompleted, bootstrapCalls, errorLog, ceilingExceeded, startError, stopSnapshot, refreshInterval, discoveryRounds, lastDiscoveryCount,
                   discoveryComplete, isStopping, stopMessage, bootstrapping,
                   resultsFile, refreshInFlight, mainPc, seedIdx, removals, summary>>

\* fs.mkdir / fs.appendFile return: the line is appended, or the error is
\* caught and printed; either way the handler goes on to dpt.bootstrap(peer)
\* a handler that bootstraps only from a peer the registry still holds
AppendReturnsSkipsRemoved(rec, ok) ==
    /\ BagIn(rec, appending)
    /\ resultsFile' = IF ok THEN Append(resultsFile, rec) ELSE resultsFile
    /\ appending' = appending (-) SetToBag({rec})
    /\ IF MapHas(discoveredPeers, getPeerId(rec.peer))
       THEN /\ bootstrapping' = bootstrapping (+) SetToBag({rec.peer})
            /\ bootstrapCalls' = bootstrapCalls + 1
       ELSE UNCHANGED <<bootstrapping, bootstrapCalls>>
    /\ UNCHANGED <<config, budget, resolverCall, refreshCompleted, errorLog, ceilingExceeded, startError, stopSnapshot, discoveredPeers, refreshInterval, discoveryRounds,
                   lastDiscoveryCount, discoveryComplete, isStopping, stopMessage,
                   added, refreshInFlight, mainPc, seedIdx, removals, summary>>

\* a handler whose failed append ends it: no bootstrap follows
AppendReturnsFailureSkips(rec, ok) ==
    /\ BagIn(rec, appending)
    /\ resultsFile' = IF ok THEN Append(resultsFile, rec) ELSE resultsFile
    /\ appending' = appending (-) SetToBag({rec})
    /\ IF ok
       THEN /\ bootstrapping' = bootstrapping (+) SetToBag({rec.peer})
            /\ bootstrapCalls' = bootstrapCalls + 1
       ELSE UNCHANGED <<bootstrapping, bootstrapCalls>>
    /\ UNCHANGED <<config, budget, resolverCall, refreshCompleted, errorLog, ceilingExceeded, startError, stopSnapshot, discoveredPeers, refreshInterval, discoveryRounds,
                   lastDiscoveryCount, discoveryComplete, isStopping, stopMessage,
                   added, refreshInFlight, mainPc, seedIdx, removals, summary>>

\* the handler's continuation after the append
AppendReturns(rec, ok) ==
    /\ BagIn(rec, appending)
    /\ resultsFile' = IF ok THEN Append(resultsFile, rec) ELSE resultsFile
    /\ appending' = appending (-) SetToBag({rec})
    /\ bootstrapping' = bootstrapping (+) SetToBag({rec.peer})
    /\ bootstrapCalls' = bootstrapCalls + 1
    /\ UNCHANGED <<config, budget, resolverCall, refreshCompleted, errorLog, ceilingExceeded, startError, stopSnapshot, discoveredPeers, refreshInterval, discoveryRounds,
                   lastDiscoveryCount, discoveryComplete, isStopping, stopMessage,
                   added, refreshInFlight, mainPc, seedIdx, removals, summary>>

\* a line printed by a handler whose only effect is the line
LogError(line) ==
    /\ Len(errorLog) < budget.faults
    /\ errorLog' = Append(errorLog, line)

\* a failed bootstrap drops the peer from the registry
BootstrapReturnsFailureDrops(peer, ok) ==
    /\ BagIn(peer, bootstrapping)
    /\ bootstrapping' = bootstrapping (-) SetToBag({peer})
    /\ IF ok THEN UNCHANGED <<errorLog, discoveredPeers>>
       ELSE /\ LogError("Failed to bootstrap from peer")
            /\ discoveredPeers' = MapDelete(discoveredPeers, getPeerId(peer))
    /\ UNCHANGED <<config, budget, resolverCall, refreshCompleted, bootstrapCalls, ceilingExceeded, startError, stopSnapshot, refreshInterval, discoveryRounds,
                   lastDiscoveryCount, discoveryComplete, isStopping, stopMessage,
                   appending, added, resultsFile, refreshInFlight, mainPc, seedIdx,
                   removals, summary>>

\* dpt.bootstrap(peer) of the handler returns, or throws and the catch
\* prints the warning: the handler ends
BootstrapReturns(peer, ok) ==
    /\ BagIn(peer, bootstrapping)
    /\ bootstrapping' = bootstrapping (-) SetToBag({peer})
    /\ IF ok THEN UNCHANGED errorLog
       ELSE LogError("Failed to bootstrap from peer")
    /\ UNCHANGED <<config, budget, resolverCall, refreshCompleted, bootstrapCalls, ceilingExceeded, startError, stopSnapshot, discoveredPeers, refreshInterval, discoveryRounds,
                   lastDiscoveryCount, discoveryComplete, isStopping, stopMessage,
                   appending, added, resultsFile, refreshInFlight, mainPc, seedIdx,
                   removals, summary>>

(***************************************************************************)
(* peer:removed.                                                           *)
(***************************************************************************)
\* a listener that returns at once when the run is stopping
PeerRemovedUnlessStopping(peer) ==
    /\ MapHas(discoveredPeers, getPeerId(peer)) => removals < budget.removes
    /\ discoveredPeers' = IF isStopping THEN discoveredPeers
                          ELSE MapDelete(discoveredPeers, getPeerId(peer))
    /\ removals' = IF ~isStopping /\ MapHas(discoveredPeers, getPeerId(peer))
                   THEN removals + 1 ELSE removals
    /\ UNCHANGED <<config, budget, resolverCall, refreshCompleted, bootstrapCalls, errorLog, ceilingExceeded, startError, stopSnapshot, refreshInterval, discoveryRounds, lastDiscoveryCount,
                   discoveryComplete, isStopping, stopMessage, appending,
                   bootstrapping, added, resultsFile, refreshInFlight, mainPc,
                   seedIdx, summary>>

\* the peer:removed listener
PeerRemoved(peer) ==
    /\ MapHas(discoveredPeers, getPeerId(peer)) => removals < budget.removes
    /\ discoveredPeers' = MapDelete(discoveredPeers, getPeerId(peer))
    /\ removals' = IF MapHas(discoveredPeers, getPeerId(peer))
                   THEN removals + 1 ELSE removals
    /\ UNCHANGED <<config, budget, resolverCall, refreshCompleted, bootstrapCalls, errorLog, ceilingExceeded, startError, stopSnapshot, refreshInterval, discoveryRounds, lastDiscoveryCount,
                   discoveryComplete, isStopping, stopMessage, appending,
                   bootstrapping, added, resultsFile, refreshInFlight, mainPc,
                   seedIdx, summary>>

\* the error handler ending the run
TransportErrorCompletes ==
    /\ LogError("DPT error")
    /\ discoveryComplete' = TRUE
    /\ UNCHANGED <<config, budget, resolverCall, refreshCompleted, bootstrapCalls, ceilingExceeded, startError, stopSnapshot, discoveredPeers,
                   refreshInterval, discoveryRounds, lastDiscoveryCount,
                   isStopping, stopMessage, appending, bootstrapping, added,
                   resultsFile, refreshInFlight, mainPc, seedIdx, removals, summary>>

\* the 'error' event of the transport: printed
TransportError ==
    /\ LogError("DPT error")
    /\ UNCHANGED <<config, budget, resolverCall, refreshCompleted, bootstrapCalls, ceilingExceeded, startError, stopSnapshot, discoveredPeers,
                   refreshInterval, discoveryRounds, lastDiscoveryCount,
                   discoveryComplete, isStopping, stopMessage, appending,
                   bootstrapping, added, resultsFile, refreshInFlight, mainPc,
                   seedIdx, removals, summary>>

(***************************************************************************)
(* refreshDiscovery, up to `await this.dpt.refresh()`.                     *)
(***************************************************************************)
\* the max-rounds check off by one
refreshDecisionLateMaxRounds(rounds, size, last, cfg) ==
    IF rounds > cfg.maxDiscoveryRounds THEN "maxRounds"
    ELSE IF cfg.maxNodes > 0 /\ size >= cfg.maxNodes THEN "maxNodes"
    ELSE IF size = last /\ rounds >= cfg.minDiscoveryRounds THEN "stagnation"
    ELSE "refresh"

\* the max-nodes check off by one
refreshDecisionLateMaxNodes(rounds, size, last, cfg) ==
    IF rounds >= cfg.maxDiscoveryRounds THEN "maxRounds"
    ELSE IF cfg.maxNodes > 0 /\ size > cfg.maxNodes THEN "maxNodes"
    ELSE IF size = last /\ rounds >= cfg.minDiscoveryRounds THEN "stagnation"
    ELSE "refresh"

\* the minimum-rounds guard off by one
refreshDecisionLateMinRounds(rounds, size, last, cfg) ==
    IF rounds >= cfg.maxDiscoveryRounds THEN "maxRounds"
    ELSE IF cfg.maxNodes > 0 /\ size >= cfg.maxNodes THEN "maxNodes"
    ELSE IF size = last /\ rounds > cfg.minDiscoveryRounds THEN "stagnation"
    ELSE "refresh"

\* the stagnation check without its minimum-rounds guard
refreshDecisionNoMinRounds(rounds, size, last, cfg) ==
    IF rounds >= cfg.maxDiscoveryRounds THEN "maxRounds"
    ELSE IF cfg.maxNodes > 0 /\ size >= cfg.maxNodes THEN "maxNodes"
    ELSE IF size = last THEN "stagnation"
    ELSE "refresh"

\* a stagnation check that asks for growth: a registry that only lost peers
\* counts as stagnant
refreshDecisionNoGrowth(rounds, size, last, cfg) ==
    IF rounds >= cfg.maxDiscoveryRounds THEN "maxRounds"
    ELSE IF cfg.maxNodes > 0 /\ size >= cfg.maxNodes THEN "maxNodes"
    ELSE IF size <= last /\ rounds >= cfg.minDiscoveryRounds THEN "stagnation"
    ELSE "refresh"

\* the three checks in the other order: stagnation before the two caps
refreshDecisionStagnationFirst(rounds, size, last, cfg) ==
    IF size = last /\ rounds >= cfg.minDiscoveryRounds THEN "stagnation"
    ELSE IF rounds >= cfg.maxDiscoveryRounds THEN "maxRounds"
    ELSE IF cfg.maxNodes > 0 /\ size >= cfg.maxNodes THEN "maxNodes"
    ELSE "refresh"

refreshDecision(rounds, size, last, cfg) ==
    IF rounds >= cfg.maxDiscoveryRounds THEN "maxRounds"
    ELSE IF cfg.maxNodes > 0 /\ size >= cfg.maxNodes THEN "maxNodes"
    ELSE IF size = last /\ rounds >= cfg.minDiscoveryRounds THEN "stagnation"
    ELSE "refresh"

\* a tick that takes its snapshot whether or not it goes on to refresh
refreshDiscoverySnapshotAlways ==
    LET d == refreshDecision(discoveryRounds, MapSize(discoveredPeers),
                             lastDiscoveryCount, config)
    IN  IF d = "refresh"
        THEN /\ refreshInFlight < MaxRefreshInFlight
             /\ lastDiscoveryCount' = MapSize(discoveredPeers)
             /\ discoveryRounds' = discoveryRounds + 1
             /\ refreshInFlight' = refreshInFlight + 1
             /\ UNCHANGED <<discoveryComplete, stopMessage>>
        ELSE /\ discoveryComplete' = TRUE
             /\ stopMessage' = d
             /\ lastDiscoveryCount' = MapSize(discoveredPeers)
             /\ UNCHANGED <<discoveryRounds, refreshInFlight>>

\* a tick that does nothing while an earlier refresh() has not returned
refreshDiscoverySkipsWhileBusy ==
    IF refreshInFlight > 0
    THEN UNCHANGED <<lastDiscoveryCount, discoveryRounds, refreshInFlight,
                     discoveryComplete, stopMessage>>
    ELSE
        LET d == refreshDecision(discoveryRounds, MapSize(discoveredPeers),
                                 lastDiscoveryCount, config)
        IN  IF d = "refresh"
            THEN /\ refreshInFlight < MaxRefreshInFlight
                 /\ lastDiscoveryCount' = MapSize(discoveredPeers)
                 /\ discoveryRounds' = discoveryRounds + 1
                 /\ refreshInFlight' = refreshInFlight + 1
                 /\ UNCHANGED <<discoveryComplete, stopMessage>>
            ELSE /\ discoveryComplete' = TRUE
                 /\ stopMessage' = d
                 /\ UNCHANGED <<lastDiscoveryCount, discoveryRounds, refreshInFlight>>

\* refreshDiscovery up to `await this.dpt.refresh()`
refreshDiscovery ==
    LET d == refreshDecision(discoveryRounds, MapSize(discoveredPeers),
                             lastDiscoveryCount, config)
    IN  IF d = "refresh"
        THEN /\ refreshInFlight < MaxRefreshInFlight
             /\ lastDiscoveryCount' = MapSize(discoveredPeers)
             /\ discoveryRounds' = discoveryRounds + 1
             /\ refreshInFlight' = refreshInFlight + 1
             /\ UNCHANGED <<discoveryComplete, stopMessage>>
        ELSE /\ discoveryComplete' = TRUE
             /\ stopMessage' = d
             /\ UNCHANGED <<lastDiscoveryCount, discoveryRounds, refreshInFlight>>

\* Both timers live in one event loop, which runs them in order of expiry.
\* main() is asleep in its polling loop whenever the refresh timer is armed,
\* and after waking it calls stop() as soon as discoveryComplete is set.  The
\* tick that sets discoveryComplete is followed by another tick before main()
\* wakes only if the refresh period is no longer than the sleep.
TickDue ==
    /\ refreshInterval
    /\ discoveryComplete => RefreshIntervalMs <= PollIntervalMs

\* a timer whose callback may run again before main() has woken
TickWhileComplete ==
    /\ refreshInterval
    /\ refreshDiscovery
    /\ UNCHANGED <<config, budget, resolverCall, refreshCompleted, bootstrapCalls, errorLog, ceilingExceeded, startError, stopSnapshot, discoveredPeers, refreshInterval, isStopping, appending, bootstrapping, added,
                   resultsFile, mainPc, seedIdx, removals, summary>>

\* a tick that waits for the suspended handlers before it looks at the run
TickAwaitsHandlers ==
    /\ TickDue
    /\ appending = EmptyBag
    /\ bootstrapping = EmptyBag
    /\ refreshDiscovery
    /\ UNCHANGED <<config, budget, resolverCall, refreshCompleted, bootstrapCalls, errorLog, ceilingExceeded, startError, stopSnapshot, discoveredPeers, refreshInterval, isStopping, appending, bootstrapping, added,
                   resultsFile, mainPc, seedIdx, removals, summary>>

\* the setInterval callback
Tick ==
    /\ TickDue
    /\ refreshDiscovery
    /\ UNCHANGED <<config, budget, resolverCall, refreshCompleted, bootstrapCalls, errorLog, ceilingExceeded, startError, stopSnapshot, discoveredPeers, refreshInterval, isStopping, appending, bootstrapping, added,
                   resultsFile, mainPc, seedIdx, removals, summary>>

\* a failed refresh() taking its round back
RefreshReturnsFailureUncounts(ok) ==
    /\ refreshInFlight > 0
    /\ refreshInFlight' = refreshInFlight - 1
    /\ refreshCompleted' = IF ok THEN refreshCompleted + 1 ELSE refreshCompleted
    /\ IF ok THEN UNCHANGED <<errorLog, discoveryRounds>>
       ELSE /\ LogError("Error during discovery refresh")
            /\ discoveryRounds' = discoveryRounds - 1
    /\ UNCHANGED <<config, budget, resolverCall, bootstrapCalls, ceilingExceeded, startError, stopSnapshot, discoveredPeers, refreshInterval,
                   lastDiscoveryCount, discoveryComplete, isStopping, stopMessage,
                   appending, bootstrapping, added, resultsFile, mainPc, seedIdx, removals, summary>>

\* dpt.refresh() returns (the round line is printed), or throws and the
\* catch prints the error
RefreshReturns(ok) ==
    /\ refreshInFlight > 0
    /\ refreshInFlight' = refreshInFlight - 1
    /\ refreshCompleted' = IF ok THEN refreshCompleted + 1 ELSE refreshCompleted
    /\ IF ok THEN UNCHANGED errorLog
       ELSE LogError("Error during discovery refresh")
    /\ UNCHANGED <<config, budget, resolverCall, bootstrapCalls, ceilingExceeded, startError, stopSnapshot, discoveredPeers, refreshInterval, discoveryRounds,
                   lastDiscoveryCount, discoveryComplete, isStopping, stopMessage,
                   appending, bootstrapping, added, resultsFile, mainPc, seedIdx, removals, summary>>

(***************************************************************************)
(* start(): the bootnode loop, then setInterval.                           *)
(***************************************************************************)
\* fs.mkdir of main() throws before start() is called: main() catches
MkdirThrows ==
    /\ mainPc = "start"
    /\ seedIdx = 0
    /\ mainPc' = "failed"
    /\ startError' = "mkdir"
    /\ UNCHANGED <<config, budget, resolverCall, refreshCompleted, bootstrapCalls, errorLog, ceilingExceeded, stopSnapshot, discoveredPeers, refreshInterval, discoveryRounds,
                   lastDiscoveryCount, discoveryComplete, isStopping, stopMessage,
                   appending, bootstrapping, added, resultsFile, refreshInFlight, seedIdx, removals, summary>>

\* nodeToPeerInfo and dpt.bootstrap of one bootnode both return
StartBootnode(node, dns) ==
    /\ mainPc = "start"
    /\ seedIdx < NumBootnodes
    /\ nodeToPeerInfo(node, dns).error = "none"
    /\ seedIdx' = seedIdx + 1
    /\ UNCHANGED <<config, budget, resolverCall, refreshCompleted, bootstrapCalls, errorLog, ceilingExceeded, startError, stopSnapshot, discoveredPeers, refreshInterval, discoveryRounds,
                   lastDiscoveryCount, discoveryComplete, isStopping, stopMessage,
                   appending, bootstrapping, added, resultsFile, refreshInFlight, mainPc, removals, summary>>

\* nodeToPeerInfo throws, or it returns and dpt.bootstrap throws: start()
\* prints and rethrows, main() catches and prints; neither stop() nor
\* saveResultsToFile() is reached
StartThrows(node, dns, ok) ==
    /\ mainPc = "start"
    /\ seedIdx < NumBootnodes
    /\ nodeToPeerInfo(node, dns).error # "none" \/ ~ok
    /\ mainPc' = "failed"
    /\ startError' = IF nodeToPeerInfo(node, dns).error # "none"
                     THEN nodeToPeerInfo(node, dns).error
                     ELSE "bootstrap"
    /\ UNCHANGED <<config, budget, resolverCall, refreshCompleted, bootstrapCalls, errorLog, ceilingExceeded, stopSnapshot, discoveredPeers, refreshInterval, discoveryRounds,
                   lastDiscoveryCount, discoveryComplete, isStopping, stopMessage,
                   appending, bootstrapping, added, resultsFile, refreshInFlight, seedIdx, removals, summary>>

\* a start() that arms the timer while the last seed is still being contacted
StartTimerEarly ==
    /\ mainPc = "start"
    /\ seedIdx >= NumBootnodes - 1
    /\ refreshInterval' = TRUE
    /\ mainPc' = "loop"
    /\ UNCHANGED <<config, budget, resolverCall, refreshCompleted, bootstrapCalls, errorLog, ceilingExceeded, startError, stopSnapshot, discoveredPeers, discoveryRounds, lastDiscoveryCount,
                   discoveryComplete, isStopping, stopMessage, appending, bootstrapping, added,
                   resultsFile, refreshInFlight, seedIdx, removals, summary>>

\* the end of start(): the timer is armed and main() enters its loop
StartTimer ==
    /\ mainPc = "start"
    /\ seedIdx = NumBootnodes
    /\ refreshInterval' = TRUE
    /\ mainPc' = "loop"
    /\ UNCHANGED <<config, budget, resolverCall, refreshCompleted, bootstrapCalls, errorLog, ceilingExceeded, startError, stopSnapshot, discoveredPeers, discoveryRounds, lastDiscoveryCount,
                   discoveryComplete, isStopping, stopMessage, appending, bootstrapping, added,
                   resultsFile, refreshInFlight, seedIdx, removals, summary>>

(***************************************************************************)
(* stop(), called by main() when its loop ends: by the loop condition      *)
(* (isDiscoveryComplete) or by the timeout break.                          *)
(***************************************************************************)
\* stop() without its clearInterval
stopKeepsTimer ==
    /\ isStopping' = TRUE
    /\ refreshInterval' = refreshInterval
    /\ stopSnapshot' = [taken |-> TRUE,
                        peers |-> MapValues(discoveredPeers),
                        discoveryRounds |-> discoveryRounds,
                        discoveryComplete |-> discoveryComplete]

stop ==
    /\ isStopping' = TRUE
    /\ refreshInterval' = FALSE
    /\ stopSnapshot' = [taken |-> TRUE,
                        peers |-> MapValues(discoveredPeers),
                        discoveryRounds |-> discoveryRounds,
                        discoveryComplete |-> discoveryComplete]

\* the loop condition isDiscoveryComplete() ends the loop
MainLoopComplete ==
    /\ mainPc = "loop"
    /\ discoveryComplete
    /\ stop
    /\ mainPc' = "wait"
    /\ UNCHANGED <<config, budget, resolverCall, refreshCompleted, bootstrapCalls, errorLog, ceilingExceeded, startError, discoveredPeers, discoveryRounds,
                   lastDiscoveryCount, discoveryComplete, stopMessage, appending,
                   bootstrapping, added, resultsFile, refreshInFlight, seedIdx,
                   removals, summary>>

\* discoveryTimeout passes, counted from the moment main() began
CeilingPasses ==
    /\ budget.clock
    /\ ~ceilingExceeded
    /\ ceilingExceeded' = TRUE
    /\ UNCHANGED <<config, budget, resolverCall, refreshCompleted, bootstrapCalls, errorLog, startError, stopSnapshot, discoveredPeers,
                   refreshInterval, discoveryRounds, lastDiscoveryCount,
                   discoveryComplete, isStopping, stopMessage, appending,
                   bootstrapping, added, resultsFile, refreshInFlight, mainPc,
                   seedIdx, removals, summary>>

\* the timeout test breaks out of the loop: discoveryTimeout has passed
\* since startTime, which main() took after start() returned
MainLoopTimeout ==
    /\ mainPc = "loop"
    /\ stop
    /\ mainPc' = "wait"
    /\ ceilingExceeded' = TRUE
    /\ UNCHANGED <<config, budget, resolverCall, refreshCompleted, bootstrapCalls, errorLog, startError, discoveredPeers, discoveryRounds,
                   lastDiscoveryCount, discoveryComplete, stopMessage, appending,
                   bootstrapping, added, resultsFile, refreshInFlight, seedIdx,
                   removals, summary>>

(***************************************************************************)
(* saveResultsToFile, after the 2 s wait: the summary object is built      *)
(* from the registry and counters as they are then.                        *)
(***************************************************************************)
\* the summary reporting the round in progress as one more
summaryOfNextRound(peers, rounds, complete) ==
    [written |-> TRUE,
     totalPeers |-> MapSize(peers),
     summary |-> {PeerInfo(p.address, p.udpPort, p.tcpPort) : p \in MapValues(peers)},
     discoveryRounds |-> rounds + 1,
     discoveryComplete |-> complete]

summaryOf(peers, rounds, complete) ==
    [written |-> TRUE,
     totalPeers |-> MapSize(peers),
     summary |-> {PeerInfo(p.address, p.udpPort, p.tcpPort) : p \in MapValues(peers)},
     discoveryRounds |-> rounds,
     discoveryComplete |-> complete]

saveResultsToFile(ok) ==
    /\ mainPc = "wait"
    /\ summary' = IF ok THEN summaryOf(discoveredPeers, discoveryRounds, discoveryComplete)
                  ELSE NoSummary
    /\ mainPc' = "done"
    /\ UNCHANGED <<config, budget, resolverCall, refreshCompleted, bootstrapCalls, errorLog, ceilingExceeded, startError, stopSnapshot, discoveredPeers, refreshInterval, discoveryRounds,
                   lastDiscoveryCount, discoveryComplete, isStopping, stopMessage,
                   appending, bootstrapping, added, resultsFile, refreshInFlight, seedIdx, removals>>

Next ==
    \/ \E peer \in PeerInputs : PeerAdded(peer)
    \/ \E peer \in PeerInputs : PeerRemoved(peer)
    \/ \E rec \in BagToSet(appending), ok \in BOOLEAN : AppendReturns(rec, ok)
    \/ \E peer \in BagToSet(bootstrapping), ok \in BOOLEAN :
           BootstrapReturns(peer, ok)
    \/ TransportError
    \/ Tick
    \/ \E ok \in BOOLEAN : RefreshReturns(ok)
    \/ MkdirThrows
    \/ \E node \in NodeInputs, dns \in DnsOutcomes : StartBootnode(node, dns)
    \/ \E node \in NodeInputs, dns \in DnsOutcomes, ok \in BOOLEAN :
           StartThrows(node, dns, ok)
    \/ StartTimer
    \/ CeilingPasses
    \/ MainLoopComplete
    \/ MainLoopTimeout
    \/ \E ok \in BOOLEAN : saveResultsToFile(ok)

Spec == Init /\ [][Next]_vars

SpecScenario == InitScenario /\ [][Next]_vars

SpecFaults == InitFaults /\ [][Next]_vars

\* what the event loop guarantees: an armed timer fires, main() goes on
\* when its sleep ends or its file write returns, a handler goes on when its
\* append returns, the clock advances.  Calls into the transport (bootstrap,
\* refresh) and name lookups need not return.
Fairness ==
    /\ WF_vars(Tick)
    /\ WF_vars(StartTimer)
    /\ WF_vars(CeilingPasses)
    /\ WF_vars(MainLoopComplete)
    /\ WF_vars(MainLoopTimeout)
    /\ WF_vars(\E ok \in BOOLEAN : saveResultsToFile(ok))
    /\ WF_vars(\E rec \in BagToSet(appending), ok \in BOOLEAN :
                   AppendReturns(rec, ok))

SpecFair == InitFair /\ [][Next]_vars /\ Fairness

SpecChurn == InitChurn /\ [][Next]_vars

(***************************************************************************)
(* The resolver on its own: nodeToPeerInfo applied to one reference, with  *)
(* one answer of the name service, before anything else has run.           *)
(***************************************************************************)
InitResolver ==
    /\ config = DefaultConfig
    /\ budget = Budget(0, 0, 0, FALSE)
    /\ Constructed
    /\ resolverCall \in
          {[made |-> FALSE, node |-> node, dns |-> dns] :
              node \in ResolverNodes, dns \in DnsOutcomes}

ResolveNode ==
    /\ ~resolverCall.made
    /\ resolverCall' =
          [made    |-> TRUE,
           node    |-> resolverCall.node,
           dns     |-> resolverCall.dns,
           lookups |-> dnsLookups(resolverCall.node),
           result  |-> nodeToPeerInfo(resolverCall.node, resolverCall.dns)]
    /\ UNCHANGED <<config, budget, refreshCompleted, bootstrapCalls, errorLog,
                   ceilingExceeded, startError, stopSnapshot, discoveredPeers,
                   refreshInterval, discoveryRounds, lastDiscoveryCount,
                   discoveryComplete, isStopping, stopMessage, appending,
                   bootstrapping, added, resultsFile, refreshInFlight, mainPc,
                   seedIdx, removals, summary>>

NextResolver == ResolveNode

SpecResolver == InitResolver /\ [][NextResolver]_vars

(***************************************************************************)
(* Helpers of the properties.                                              *)
(***************************************************************************)
RegistrySize == MapSize(discoveredPeers)

\* the peers of the transport's reports, by name
PeerA == PeerInfo("A", 30303, 30303)
PeerA2 == PeerInfo("A", 30304, 30303)
PeerB == PeerInfo("B", 30303, 30303)

\* the max-nodes condition of refreshDiscovery
MaxNodesReached == config.maxNodes > 0 /\ RegistrySize >= config.maxNodes

\* every insertion so far has its line in the append log
AllInsertionsLogged == added = Len(resultsFile)

LogRecords == {resultsFile[i] : i \in DOMAIN resultsFile}

\* replaying the append log in order: a later line for an identity
\* replaces the earlier one
RECURSIVE Replay(_, _)
Replay(log, acc) ==
    IF log = <<>> THEN acc
    ELSE Replay(Tail(log),
                {p \in acc : Identity(p) # Identity(Head(log).peer)}
                    \cup {Head(log).peer})

(***************************************************************************)
(* C1.  The registry holds at most one entry per identity                  *)
(* host:discoveryPort, whatever peer:added and peer:removed events arrive  *)
(* and however often an address is reported.                               *)
(***************************************************************************)
C1_OneEntryPerIdentity ==
    \A k1, k2 \in DOMAIN discoveredPeers :
        Identity(discoveredPeers[k1]) = Identity(discoveredPeers[k2]) => k1 = k2

\* A:30303 was inserted, removed and inserted again, now reported with
\* another transport port
C1_Witness ==
    /\ added = 2
    /\ removals = 1
    /\ MapValues(discoveredPeers) = {PeerInfo("A", 30303, 30304)}

(***************************************************************************)
(* C2.  The round counter starts at 0, never decreases and never exceeds   *)
(* the configured maximum, also when a tick fires while an earlier         *)
(* refresh() is still pending.                                             *)
(***************************************************************************)
C2_RoundCounter ==
    /\ discoveryRounds = 0
    /\ [][/\ discoveryRounds' >= discoveryRounds
          /\ discoveryRounds' <= config.maxDiscoveryRounds]_vars

\* the counter at its maximum, the last two refresh() calls both pending
C2_Witness ==
    /\ config.maxDiscoveryRounds = 2
    /\ discoveryRounds = 2
    /\ refreshInFlight = 2

(***************************************************************************)
(* C3.  A tick tests, in this order, round >= maxRounds, maxNodes > 0 and  *)
(* size >= maxNodes, size = snapshot and round >= minRounds; the first     *)
(* that holds marks the run complete with that reason, leaving the round   *)
(* counter alone and calling no refresh(); if none holds the tick adds     *)
(* exactly 1 to the round counter and calls refresh() exactly once.        *)
(***************************************************************************)
TickCompletes(reason) ==
    /\ discoveryComplete'
    /\ stopMessage' = reason
    /\ discoveryRounds' = discoveryRounds
    /\ refreshInFlight' = refreshInFlight

C3_TickOrder ==
    [][Tick =>
        IF discoveryRounds >= config.maxDiscoveryRounds
        THEN TickCompletes("maxRounds")
        ELSE IF MaxNodesReached
        THEN TickCompletes("maxNodes")
        ELSE IF RegistrySize = lastDiscoveryCount
                /\ discoveryRounds >= config.minDiscoveryRounds
        THEN TickCompletes("stagnation")
        ELSE /\ discoveryRounds' = discoveryRounds + 1
             /\ refreshInFlight' = refreshInFlight + 1
             /\ discoveryComplete' = discoveryComplete]_vars

\* a tick has completed the run for max rounds although the stagnation
\* condition holds as well, after a tick that went on to refresh
C3_Witness ==
    /\ discoveryComplete
    /\ stopMessage = "maxRounds"
    /\ RegistrySize = lastDiscoveryCount
    /\ discoveryRounds >= config.minDiscoveryRounds
    /\ discoveryRounds = 1
    /\ refreshInFlight = 1

(***************************************************************************)
(* C4.  As claimed: with maxNodes = N > 0, once the registry size has      *)
(* reached N (the append log holds a line written at size >= N) no         *)
(* further round is performed: the round counter is never incremented.     *)
(***************************************************************************)
C4_Original ==
    [][(/\ config.maxNodes > 0
        /\ \E rec \in LogRecords : rec.totalPeers >= config.maxNodes)
       => discoveryRounds' = discoveryRounds]_vars

(***************************************************************************)
(* C4, amended.  With maxNodes = N > 0, while the registry size is >= N    *)
(* no step increments the round counter or calls refresh(), and a tick     *)
(* marks the run complete.                                                 *)
(***************************************************************************)
C4_NoRoundAtMaxNodes ==
    [][MaxNodesReached =>
          /\ discoveryRounds' = discoveryRounds
          /\ refreshInFlight' <= refreshInFlight
          /\ (Tick => discoveryComplete')]_vars

\* completed for max nodes after one round, a tick having found the
\* registry at the cap
C4_Witness ==
    /\ discoveryComplete
    /\ stopMessage = "maxNodes"
    /\ MaxNodesReached
    /\ discoveryRounds = 1

(***************************************************************************)
(* C5.  As claimed: maxNodes = N > 0 is a hard cap, the registry never     *)
(* holds more than N entries.                                              *)
(***************************************************************************)
C5_HardCap ==
    config.maxNodes > 0 => RegistrySize <= config.maxNodes

(***************************************************************************)
(* C6.  As claimed: at a tick with round >= minRounds >= 1, if no peer     *)
(* was inserted during the last minRounds rounds (all of them at or after  *)
(* round minRounds), the run is complete with reason stagnation after the  *)
(* tick, whatever was removed meanwhile.  Stated for the ticks at which    *)
(* neither cap holds, where no other reason can pre-empt stagnation.       *)
(***************************************************************************)
QuietFor(n) ==
    /\ AllInsertionsLogged
    /\ \A rec \in LogRecords : rec.discoveryRound <= discoveryRounds - n

C6_Original ==
    [][(/\ Tick
        /\ config.minDiscoveryRounds >= 1
        /\ discoveryRounds - config.minDiscoveryRounds + 1 >= config.minDiscoveryRounds
        /\ QuietFor(config.minDiscoveryRounds)
        /\ discoveryRounds < config.maxDiscoveryRounds
        /\ ~MaxNodesReached)
       => (discoveryComplete' /\ stopMessage' = "stagnation")]_vars

(***************************************************************************)
(* C6, amended.  A tick at which the registry size equals the previous     *)
(* snapshot and round >= minRounds, while round < maxRounds and the        *)
(* max-nodes condition does not hold, marks the run complete with reason   *)
(* stagnation.                                                             *)
(***************************************************************************)
C6_Stagnation ==
    [][(/\ Tick
        /\ RegistrySize = lastDiscoveryCount
        /\ discoveryRounds >= config.minDiscoveryRounds
        /\ discoveryRounds < config.maxDiscoveryRounds
        /\ ~MaxNodesReached)
       => (discoveryComplete' /\ stopMessage' = "stagnation")]_vars

\* stagnation after a round in which nothing was inserted or removed
C6_Witness ==
    /\ discoveryComplete
    /\ stopMessage = "stagnation"
    /\ config.minDiscoveryRounds = 1
    /\ discoveryRounds = 1
    /\ RegistrySize = 1
    /\ removals = 0

(***************************************************************************)
(* C7.  A tick at a round below minRounds never completes the run for      *)
(* stagnation, even if the registry size never changed.                    *)
(***************************************************************************)
C7_NoEarlyStagnation ==
    [][(Tick /\ discoveryRounds < config.minDiscoveryRounds)
       => stopMessage' # "stagnation"]_vars

\* a second tick below minRounds went on to refresh with the registry
\* empty all along
C7_Witness ==
    /\ config.minDiscoveryRounds = 2
    /\ discoveryRounds = 2
    /\ added = 0
    /\ lastDiscoveryCount = 0
    /\ ~discoveryComplete


(***************************************************************************)
(* C8.  Shipped configuration (minRounds 3, maxRounds 20, maxNodes 0),     *)
(* two bootnodes; the transport reports A and B before the first tick and  *)
(* no other peer afterwards: a summary written for a complete run has 3    *)
(* rounds, reason stagnation and exactly the peers A and B.                *)
(***************************************************************************)
ScenarioAB ==
    /\ config = DefaultConfig
    /\ added = 2
    /\ AllInsertionsLogged
    /\ {rec.peer : rec \in LogRecords} = {PeerA, PeerB}
    /\ \A rec \in LogRecords : rec.discoveryRound = 0

C8_ScenarioAB ==
    (ScenarioAB /\ summary.written /\ summary.discoveryComplete)
    => /\ stopMessage = "stagnation"
       /\ summary.discoveryRounds = 3
       /\ summary.totalPeers = 2
       /\ summary.summary = {PeerA, PeerB}

C8_Witness ==
    /\ ScenarioAB
    /\ mainPc = "done"
    /\ summary.written
    /\ summary.discoveryComplete
    /\ summary.discoveryRounds = 3

(***************************************************************************)
(* C9.  stop() arrives with 3 peers registered, round 1 and the run not    *)
(* complete: the run is stopping, and the summary that is written has      *)
(* complete = false, 1 round and exactly those 3 peers.                    *)
(***************************************************************************)
StoppedMidRun ==
    /\ stopSnapshot.taken
    /\ Cardinality(stopSnapshot.peers) = 3
    /\ stopSnapshot.discoveryRounds = 1
    /\ ~stopSnapshot.discoveryComplete

MainEnded == mainPc \in {"done", "failed"}

\* how often saveResultsToFile has been called
summaryInvocations == IF mainPc = "done" THEN 1 ELSE 0

\* the Errors nodeToPeerInfo throws
MalformedErrors ==
    {"Could not parse Kaia node", "Could not parse ENR",
     "Invalid enode format", "Unsupported node format"}

\* the state the round logic and the summary read
OrchestratorState ==
    <<discoveredPeers, discoveryRounds, lastDiscoveryCount, discoveryComplete,
      isStopping, refreshInterval, stopMessage>>

\* the lines of errorLog
ErrorLines == {errorLog[i] : i \in DOMAIN errorLog}

(***************************************************************************)
(* C11.  As claimed: in every run saveResultsToFile is called exactly      *)
(* once, and only after stop() has cancelled the timer and destroyed the   *)
(* transport, whether the run ended by a termination condition, by the     *)
(* timeout or by a failed bootstrap of a bootnode.                         *)
(***************************************************************************)
C11_SummaryOnce ==
    (MainEnded /\ startError \in {"none", "bootstrap"})
    => /\ summaryInvocations = 1
       /\ isStopping
       /\ ~refreshInterval

(***************************************************************************)
(* C12.  As claimed: between stop() and the summary the registry does not  *)
(* change, whatever handlers are suspended and whatever peer:added and     *)
(* peer:removed events arrive late.                                        *)
(***************************************************************************)
C12_RegistryFrozen ==
    [][(isStopping /\ mainPc = "wait") => discoveredPeers' = discoveredPeers]_vars

(***************************************************************************)
(* C13.  As claimed: once stop() has been called no handler starts a       *)
(* dpt.bootstrap(peer) or a log append, a handler that was suspended in    *)
(* its append when stop() was called included.                             *)
(***************************************************************************)
C13_NoWorkAfterStop ==
    [][isStopping =>
          /\ \A p \in BagToSet(bootstrapping') :
                 CopiesIn(p, bootstrapping') <= CopiesIn(p, bootstrapping)
          /\ \A rec \in BagToSet(appending') :
                 CopiesIn(rec, appending') <= CopiesIn(rec, appending)]_vars

(***************************************************************************)
(* C14.  As claimed: once discoveryTimeout has passed since main() began,  *)
(* the bootnode phase included, the run is stopped, at whatever round and  *)
(* even if a bootstrap or refresh call has not returned: it has been       *)
(* stopped already, or main() is at the timeout test that stops it.        *)
(* Stated for the runs in which start() has not thrown.                    *)
(***************************************************************************)
C14_HardCeiling ==
    (ceilingExceeded /\ startError = "none")
    => (isStopping \/ ENABLED MainLoopTimeout)

(***************************************************************************)
(* C15.  As claimed: a failed dpt.bootstrap of a bootnode does not end the *)
(* run: main() goes on to the other bootnodes, the timer and the summary.  *)
(***************************************************************************)
C15_SeedFailureNonFatal ==
    startError = "bootstrap" => mainPc # "failed"

(***************************************************************************)
(* C16.  As claimed: a bootnode reference that cannot be resolved, because *)
(* it is malformed or its host name does not resolve, does not end the     *)
(* run.                                                                    *)
(***************************************************************************)
C16_UnresolvedSeedRecoverable ==
    startError \in MalformedErrors => mainPc # "failed"

(***************************************************************************)
(* C17.  A dpt.refresh() that throws is printed and changes nothing else:  *)
(* registry, round counter, snapshot, completion and stopping flags and    *)
(* the timer stay as they are, so the next tick decides as it would have   *)
(* after a refresh() that returned.                                        *)
(***************************************************************************)
C17_RefreshFailureNonFatal ==
    [][RefreshReturns(FALSE) =>
          /\ errorLog' = Append(errorLog, "Error during discovery refresh")
          /\ UNCHANGED OrchestratorState
          /\ refreshDecision(discoveryRounds', MapSize(discoveredPeers'),
                             lastDiscoveryCount', config')
             = refreshDecision(discoveryRounds, MapSize(discoveredPeers),
                               lastDiscoveryCount, config)]_vars

\* the only refresh() so far has thrown; the run is in its loop, the timer
\* armed, with a peer registered
C17_Witness ==
    /\ errorLog = <<"Error during discovery refresh">>
    /\ discoveryRounds = 1
    /\ refreshInFlight = 0
    /\ mainPc = "loop"
    /\ refreshInterval
    /\ ~discoveryComplete
    /\ RegistrySize = 1

(***************************************************************************)
(* C18.  The dpt.bootstrap(peer) of a peer:added handler changes nothing   *)
(* when it returns and nothing when it throws: registry, round counter,    *)
(* snapshot, completion and stopping flags and the timer are the same as   *)
(* while it was pending.                                                   *)
(***************************************************************************)
C18_FrontierBootstrapForgotten ==
    [][(\E peer \in PeerInputs, ok \in BOOLEAN : BootstrapReturns(peer, ok))
       => UNCHANGED OrchestratorState]_vars

\* a handler's bootstrap has thrown after a round; the peer is still
\* registered and no handler is pending
C18_Witness ==
    /\ "Failed to bootstrap from peer" \in ErrorLines
    /\ RegistrySize = 1
    /\ bootstrapping = EmptyBag
    /\ appending = EmptyBag
    /\ discoveryRounds = 1
    /\ ~discoveryComplete
    /\ ~isStopping

(***************************************************************************)
(* C19.  An 'error' event of the transport, and any number of them in any  *)
(* state, leaves registry, round counter, snapshot, completion flag,       *)
(* stopping flag and timer unchanged.                                      *)
(***************************************************************************)
C19_TransportErrorFrame ==
    [][TransportError => UNCHANGED OrchestratorState]_vars

\* two errors in a row during a round; the run goes on
C19_Witness ==
    /\ errorLog = <<"DPT error", "DPT error">>
    /\ discoveryRounds = 1
    /\ refreshInFlight = 1
    /\ refreshInterval
    /\ ~discoveryComplete
    /\ ~isStopping

(***************************************************************************)
(* C20.  Once the run is complete it stays complete; once stop() has been  *)
(* called the run stays stopping, the timer stays cancelled, no peer:added *)
(* event inserts a peer and no tick acts: round counter, snapshot and      *)
(* completion flag stay as they are and no refresh() is called.            *)
(***************************************************************************)
C20_Absorbing ==
    [][/\ discoveryComplete => discoveryComplete'
       /\ isStopping =>
             /\ isStopping'
             /\ ~refreshInterval'
             /\ added' = added
             /\ DOMAIN discoveredPeers' \subseteq DOMAIN discoveredPeers
             /\ discoveryRounds' = discoveryRounds
             /\ lastDiscoveryCount' = lastDiscoveryCount
             /\ discoveryComplete' = discoveryComplete
             /\ refreshInFlight' <= refreshInFlight]_vars

\* a complete run, stopped and finished while the transport could still
\* have delivered a new peer
C20_Witness ==
    /\ mainPc = "done"
    /\ isStopping
    /\ discoveryComplete
    /\ RegistrySize = 1
    /\ added < budget.adds

(***************************************************************************)
(* Claims C21..C30: the window between completion and stop(), the append   *)
(* log against the registry, the handlers' frontier bootstrap, the         *)
(* resolver, and the two counters of the tick.                             *)
(***************************************************************************)

\* a tick now would not terminate the run again: it would start a round
WouldRefresh ==
    refreshDecision(discoveryRounds, RegistrySize, lastDiscoveryCount, config)
        = "refresh"

RecordsOf(peer) ==
    {i \in DOMAIN resultsFile : Identity(resultsFile[i].peer) = Identity(peer)}

\* C22, as stated: the append log holds at most one record per peer
\* identity, also for a peer that was removed and added again.
C22_Original ==
    \A peer \in PeerInputs : Cardinality(RecordsOf(peer)) <= 1

\* C22, amended: the append log receives at most one record per insertion
\* into the registry.  An identity has at most one record as long as no
\* peer:removed has deleted an entry, and each deletion allows one more.
C22_OneRecordPerInsertion ==
    /\ Len(resultsFile) + BagCardinality(appending) <= added
    /\ \A peer \in PeerInputs : Cardinality(RecordsOf(peer)) <= 1 + removals

\* peer A was logged, removed, added again and logged again
C22_Witness ==
    /\ removals = 1
    /\ Len(resultsFile) = 2
    /\ Cardinality(RecordsOf(PeerA)) = 2

\* every record built by a handler, written or still being written
RecordsBuilt == LogRecords \cup BagToSet(appending)

\* C23, as stated: at every moment every peer present in the append log is
\* also present in the registry.
C23_Original ==
    \A rec \in LogRecords : MapHas(discoveredPeers, getPeerId(rec.peer))

\* C23, amended: a peer is inserted before its record is built, so the
\* record counts the peer itself, and as long as no peer:removed has deleted
\* an entry every peer of a record, written or still being written, is in
\* the registry as it was recorded.
C23_InsertBeforeRecord ==
    /\ \A rec \in RecordsBuilt : rec.totalPeers >= 1
    /\ removals = 0 =>
          \A rec \in RecordsBuilt :
              /\ MapHas(discoveredPeers, getPeerId(rec.peer))
              /\ discoveredPeers[getPeerId(rec.peer)] = rec.peer
              /\ rec.totalPeers <= RegistrySize

\* two peers logged and none removed: the second record counts both
C23_Witness ==
    /\ removals = 0
    /\ Len(resultsFile) = 2
    /\ resultsFile[2].totalPeers = 2
    /\ RegistrySize = 2

\* C24: every insertion of a new identity hands one record to the append,
\* and when the append returns the handler makes one bootstrap() call to the
\* peer of that record; no other step starts a bootstrap, so a peer:added for
\* an identity already stored starts none.  Every append returns, so in the
\* end each insertion has had its one bootstrap attempt.
C24_OneFrontierBootstrap ==
    /\ [](bootstrapCalls + BagCardinality(appending) = added)
    /\ [][/\ added' # added =>
                \E peer \in PeerInputs :
                    /\ ~MapHas(discoveredPeers, getPeerId(peer))
                    /\ discoveredPeers' = MapSet(discoveredPeers, getPeerId(peer), peer)
                    /\ \E rec \in BagToSet(appending') :
                          /\ rec.peer = peer
                          /\ appending' = appending (+) SetToBag({rec})
          /\ bootstrapCalls' # bootstrapCalls =>
                \E rec \in BagToSet(appending) :
                    /\ bootstrapCalls' = bootstrapCalls + 1
                    /\ appending' = appending (-) SetToBag({rec})
                    /\ bootstrapping' = bootstrapping (+) SetToBag({rec.peer})
          /\ bootstrapCalls' = bootstrapCalls =>
                \A peer \in PeerInputs :
                    CopiesIn(peer, bootstrapping') <= CopiesIn(peer, bootstrapping)]_vars
    /\ <>[](bootstrapCalls = added)

\* a peer was inserted and removed, its append returned and its bootstrap was
\* started although the registry no longer holds it
C24_Witness ==
    /\ added = 1
    /\ removals = 1
    /\ bootstrapCalls = 1
    /\ appending = EmptyBag
    /\ RegistrySize = 0

\* the registry already stores a peer with the identity of peer
Stored(peer) ==
    \E k \in DOMAIN discoveredPeers :
        Identity(discoveredPeers[k]) = Identity(peer)

\* C25: in every reachable state, a peer:added for an identity already in
\* the registry, whatever its transport port, is handled and changes
\* nothing: not the stored record, not the registry size, not the append log
\* or the pending appends, not the round counter, not the snapshot.
C25_DuplicateIsNoOp ==
    \A peer \in PeerInputs :
        Stored(peer) =>
            /\ ENABLED PeerAdded(peer)
            /\ ~ENABLED (PeerAdded(peer) /\ vars' # vars)
            /\ PeerAddedInsert(discoveredPeers, peer) = discoveredPeers

\* A is stored with transport port 30303, the transport may still deliver a
\* new peer, and a peer:added for A with transport port 30304 can arrive
C25_Witness ==
    /\ MapValues(discoveredPeers) = {PeerA}
    /\ added < budget.adds
    /\ ~isStopping
    /\ ENABLED PeerAdded(PeerInfo("A", 30303, 30304))

\* C26: neither the tick nor the peer:added listener waits for a suspended
\* handler.  Whatever appends and frontier bootstraps are in flight, an armed
\* timer's tick is evaluated, leaving them as they are while it starts a
\* round or completes the run, and a peer:added event is handled.
C26_HandlersNotAwaited ==
    /\ [](/\ (TickDue /\ (WouldRefresh => refreshInFlight < MaxRefreshInFlight))
              => ENABLED Tick
          /\ \A peer \in PeerInputs :
                (isStopping \/ Stored(peer) \/ added < budget.adds)
                    => ENABLED PeerAdded(peer))
    /\ [][(discoveryRounds' # discoveryRounds
              \/ discoveryComplete' # discoveryComplete)
             => UNCHANGED <<appending, bootstrapping, discoveredPeers>>]_vars

\* one handler is suspended in an append it began in round 0, another in its
\* bootstrap, and a tick has started round 1 meanwhile
C26_Witness ==
    /\ discoveryRounds = 1
    /\ \E rec \in BagToSet(appending) : rec.discoveryRound = 0
    /\ bootstrapping # EmptyBag
    /\ refreshInFlight = 1

\* some append has failed: fewer lines and pending appends than insertions
AppendFailed == Len(resultsFile) + BagCardinality(appending) < added

\* C27: when the append of a peer's record fails, that step leaves the
\* registry, the log, the counters, the flags and main() as they are and
\* starts the frontier bootstrap against the peer of the record; afterwards
\* ticks and peer:added events are handled as in any other state.
C27_AppendFailureNonFatal ==
    /\ [][\A rec \in BagToSet(appending) :
              AppendReturns(rec, FALSE) =>
                  /\ UNCHANGED <<discoveredPeers, resultsFile, mainPc,
                                 errorLog, startError>>
                  /\ UNCHANGED OrchestratorState
                  /\ bootstrapCalls' = bootstrapCalls + 1
                  /\ bootstrapping' = bootstrapping (+) SetToBag({rec.peer})]_vars
    /\ [](AppendFailed =>
             /\ (TickDue /\ (WouldRefresh => refreshInFlight < MaxRefreshInFlight))
                   => ENABLED Tick
             /\ \A peer \in PeerInputs :
                   (isStopping \/ Stored(peer) \/ added < budget.adds)
                       => ENABLED PeerAdded(peer)
             /\ bootstrapCalls + BagCardinality(appending) = added)

\* the append of the first peer failed; the peer is in the registry, its
\* bootstrap was started, and a second peer was then inserted and logged and
\* a round was started
C27_Witness ==
    /\ added = 2
    /\ removals = 0
    /\ RegistrySize = 2
    /\ appending = EmptyBag
    /\ bootstrapCalls = 2
    /\ Len(resultsFile) = 1
    /\ resultsFile[1].totalPeers = 2
    /\ discoveryRounds >= 1

\* the reference has a supported format and matches its pattern
WellFormed(node) ==
    node.prefix \in {"kni://", "enr:-", "enode://"} /\ node.matches

\* C28: for every well-formed reference the resolver returns a peer and
\* throws nothing.  Both ports are the parsed port.  A host that is a dotted
\* quad is returned as it is, with no lookup made; any other host is looked
\* up once, and the peer carries the first address of the answer, or the host
\* name itself when the lookup fails or answers with no address.
C28_ResolverNeverThrows ==
    (resolverCall.made /\ WellFormed(resolverCall.node)) =>
        LET node == resolverCall.node
            dns  == resolverCall.dns
            r    == resolverCall.result
        IN  /\ r.error = "none"
            /\ r.peer.udpPort = node.port
            /\ r.peer.tcpPort = node.port
            /\ IsIpLiteral(node.host) =>
                  /\ r.peer.address = node.host
                  /\ resolverCall.lookups = 0
            /\ ~IsIpLiteral(node.host) =>
                  /\ resolverCall.lookups = 1
                  /\ r.peer.address =
                        IF dns.throws \/ dns.addresses = <<>>
                        THEN node.host
                        ELSE Head(dns.addresses)

\* a host name whose lookup answers with no address: the name is the address
C28_Witness ==
    /\ resolverCall.made
    /\ resolverCall.node = NodeRef("kni://", TRUE, "ston65.node.kaia.io", 32323)
    /\ resolverCall.dns = [throws |-> FALSE, addresses |-> <<>>]
    /\ resolverCall.result.error = "none"
    /\ resolverCall.result.peer.address = "ston65.node.kaia.io"

\* refresh() calls that have thrown: each printed its line
refreshFailed ==
    Cardinality({i \in DOMAIN errorLog :
                    errorLog[i] = "Error during discovery refresh"})

\* C29, as stated: in every reachable state the round counter equals the
\* number of refresh() calls that have completed, so that a refresh that
\* fails or is still in flight is not counted.
C29_Original == discoveryRounds = refreshCompleted

\* C29, amended: the round counter equals the number of refresh() calls
\* made.  It is incremented right before the call, so it counts the calls
\* that completed, the calls that failed and the calls still in flight.
C29_RoundsCountRefreshCalls ==
    discoveryRounds = refreshCompleted + refreshFailed + refreshInFlight

\* two rounds counted: one refresh completed, one failed, none in flight
C29_Witness ==
    /\ discoveryRounds = 2
    /\ refreshCompleted = 1
    /\ refreshFailed = 1
    /\ refreshInFlight = 0

\* C30: the snapshot is 0 until the first round starts.  A step changes it
\* only if it is a tick that starts a round, and every tick that starts a
\* round sets it to the registry size that tick read, right before its
\* refresh() call.  A tick that completes the run, peer:added, peer:removed,
\* errors, returns of refresh() and stop() leave it as it is.
C30_SnapshotFrame ==
    /\ [](discoveryRounds = 0 => lastDiscoveryCount = 0)
    /\ [][/\ lastDiscoveryCount' # lastDiscoveryCount =>
                /\ discoveryRounds' = discoveryRounds + 1
                /\ refreshInFlight' = refreshInFlight + 1
                /\ UNCHANGED <<discoveredPeers, discoveryComplete, isStopping>>
          /\ discoveryRounds' # discoveryRounds =>
                lastDiscoveryCount' = RegistrySize
          /\ (discoveryComplete' # discoveryComplete
                 \/ discoveredPeers' # discoveredPeers
                 \/ errorLog' # errorLog
                 \/ isStopping' # isStopping
                 \/ refreshInFlight' < refreshInFlight) =>
                lastDiscoveryCount' = lastDiscoveryCount]_vars

\* the run completed by stagnation with a snapshot of one peer; the peer
\* was removed afterwards and the snapshot still holds the old size
C30_Witness ==
    /\ discoveryComplete
    /\ stopMessage = "stagnation"
    /\ lastDiscoveryCount = 1
    /\ RegistrySize = 0
    /\ removals = 1

(***************************************************************************)
(* Claims C31..C38: what the stagnation check compares, who writes the     *)
(* registry, the summary, termination, the seed phase, overlapping         *)
(* refreshes, the order of the log, and peer:removed.                      *)
(***************************************************************************)

\* the tick gets as far as the stagnation check, past the minimum rounds
AtStagnationCheck ==
    /\ discoveryRounds >= config.minDiscoveryRounds
    /\ discoveryRounds < config.maxDiscoveryRounds
    /\ ~(config.maxNodes > 0 /\ RegistrySize >= config.maxNodes)

\* C31: the stagnation check looks at the size of the registry and at
\* nothing else.  A tick that gets as far as that check completes the run as
\* stagnant when the size equals the snapshot, whoever the members are, and
\* starts a round when the size differs, also when peers were only removed.
C31_StagnationBySize ==
    [][(Tick /\ AtStagnationCheck) =>
          IF RegistrySize = lastDiscoveryCount
          THEN /\ discoveryComplete'
               /\ stopMessage' = "stagnation"
               /\ discoveryRounds' = discoveryRounds
          ELSE /\ ~discoveryComplete'
               /\ discoveryRounds' = discoveryRounds + 1]_vars

\* the snapshot counted A alone; during the round A was removed and B was
\* added, and the next tick completed the run as stagnant
C31_Witness ==
    /\ discoveryComplete
    /\ stopMessage = "stagnation"
    /\ lastDiscoveryCount = 1
    /\ removals = 1
    /\ MapValues(discoveredPeers) = {PeerB}
    /\ \E rec \in LogRecords :
          /\ rec.peer = PeerB
          /\ rec.discoveryRound = discoveryRounds
          /\ discoveryRounds >= 1
    /\ \E rec \in LogRecords : rec.peer = PeerA /\ rec.discoveryRound = 0

\* C32: the registry has one writer that inserts, the peer:added listener,
\* and one that deletes, the peer:removed listener.  Ticks, returns of
\* refresh(), frontier bootstraps, log appends, transport errors, stop() and
\* the summary write leave the registry as it is.
C32_SingleWriter ==
    [][/\ (DOMAIN discoveredPeers' \ DOMAIN discoveredPeers # {}) =>
              \E peer \in PeerInputs : PeerAdded(peer)
       /\ discoveredPeers' # discoveredPeers =>
              \E peer \in PeerInputs : PeerAdded(peer) \/ PeerRemoved(peer)
       /\ (\/ Tick
           \/ TransportError
           \/ \E ok \in BOOLEAN : RefreshReturns(ok)
           \/ \E rec \in BagToSet(appending), ok \in BOOLEAN :
                 AppendReturns(rec, ok)
           \/ \E peer \in BagToSet(bootstrapping), ok \in BOOLEAN :
                 BootstrapReturns(peer, ok)
           \/ MainLoopComplete
           \/ MainLoopTimeout
           \/ \E ok \in BOOLEAN : saveResultsToFile(ok))
          => discoveredPeers' = discoveredPeers]_vars

\* a run that ended with its peer still stored, after a round, a transport
\* error, a failed frontier bootstrap, stop() and the summary write
C32_Witness ==
    /\ mainPc = "done"
    /\ summary.written
    /\ discoveryRounds >= 1
    /\ MapValues(discoveredPeers) = {PeerA}
    /\ bootstrapCalls = 1
    /\ bootstrapping = EmptyBag
    /\ ErrorLines = {"DPT error", "Failed to bootstrap from peer"}

\* C33: the summary is built from the object's fields in one synchronous
\* step.  At the write its peer count is the registry size and the length of
\* its peer list, its peer list is the registry's values, its round number
\* is the round counter and its completion flag is discoveryComplete.
\* Afterwards the count still equals the length of the list, the round
\* number still equals the round counter, and the flag is true exactly when
\* a termination condition fired; a summary with the flag false belongs to a
\* run ended by the timeout.
C33_SummaryConsistent ==
    /\ [][\A ok \in BOOLEAN :
             (saveResultsToFile(ok) /\ summary'.written) =>
                 /\ summary'.totalPeers = RegistrySize
                 /\ summary'.summary = MapValues(discoveredPeers)
                 /\ summary'.discoveryRounds = discoveryRounds
                 /\ summary'.discoveryComplete = discoveryComplete]_vars
    /\ [](summary.written =>
             /\ summary.totalPeers = Cardinality(summary.summary)
             /\ summary.discoveryRounds = discoveryRounds
             /\ summary.discoveryComplete = (stopMessage # "none")
             /\ ~summary.discoveryComplete => ceilingExceeded)

\* a run ended by the timeout alone, after one round and with one peer
C33_Witness ==
    /\ summary.written
    /\ ~summary.discoveryComplete
    /\ ceilingExceeded
    /\ summary.totalPeers = 1
    /\ summary.summary = {PeerA}
    /\ summary.discoveryRounds = 1

\* the seeds are done and the timer is armed: main() is in its polling loop
SeedsDone == mainPc \in {"loop", "wait", "done"}

\* C34, as stated: every run whose seed phase finished becomes Complete,
\* after at most maxDiscoveryRounds + 1 ticks; stop() is invoked after that
\* and the summary write follows.
C34_Original ==
    /\ []((SeedsDone /\ isStopping) => discoveryComplete)
    /\ [](discoveryRounds <= config.maxDiscoveryRounds)
    /\ (mainPc = "loop") ~> discoveryComplete
    /\ discoveryComplete ~> isStopping
    /\ isStopping ~> (mainPc = "done")

\* C34, amended: every run whose seed phase finished is stopped and reaches
\* its summary write.  The ticks start at most maxDiscoveryRounds rounds and
\* the tick after the last of them completes the run, whatever peers are
\* added or removed, so the run becomes Complete unless the timeout stops it
\* first; a run stopped by the timeout alone never becomes Complete.
C34_Terminates ==
    /\ [](discoveryRounds <= config.maxDiscoveryRounds)
    /\ []((SeedsDone /\ isStopping) => (discoveryComplete \/ ceilingExceeded))
    /\ []((SeedsDone /\ isStopping /\ ~discoveryComplete)
             => [](~discoveryComplete))
    /\ (mainPc = "loop") ~> (discoveryComplete \/ ceilingExceeded)
    /\ (mainPc = "loop") ~> isStopping
    /\ isStopping ~> (mainPc = "done")

\* a run with two insertions and a removal that started all its rounds, was
\* completed by the next tick, stopped and wrote its summary
C34_Witness ==
    /\ mainPc = "done"
    /\ summary.written
    /\ discoveryComplete
    /\ stopMessage = "maxRounds"
    /\ discoveryRounds = config.maxDiscoveryRounds
    /\ added = 2
    /\ removals = 1

\* C35: start() takes the seeds one at a time, in the order of the list, and
\* arms the timer after the bootstrap of the last one has returned, so no
\* tick has been evaluated while a seed is outstanding.  The listeners are
\* registered by the constructor: during the seed phase a peer:added event is
\* handled like at any other time.
C35_NoTickBeforeSeeds ==
    /\ [](/\ refreshInterval => seedIdx = NumBootnodes
          /\ seedIdx < NumBootnodes =>
                /\ discoveryRounds = 0
                /\ lastDiscoveryCount = 0
                /\ refreshInFlight = 0
                /\ ~discoveryComplete
                /\ ~ENABLED Tick
          /\ mainPc = "start" =>
                \A peer \in PeerInputs :
                    (Stored(peer) \/ added < budget.adds)
                        => ENABLED PeerAdded(peer)
          /\ bootstrapCalls + BagCardinality(appending) = added)
    /\ [][seedIdx' # seedIdx =>
             /\ seedIdx' = seedIdx + 1
             /\ ~refreshInterval'
             /\ mainPc = "start"]_vars

\* the first seed is done and the second is not; meanwhile a peer was
\* inserted and logged and its frontier bootstrap was started, in round 0
C35_Witness ==
    /\ mainPc = "start"
    /\ seedIdx = 1
    /\ seedIdx < NumBootnodes
    /\ MapValues(discoveredPeers) = {PeerA}
    /\ Len(resultsFile) = 1
    /\ bootstrapCalls = 1
    /\ discoveryRounds = 0

\* C36, as stated: at most one refresh() call is in flight at any time.
C36_Original == refreshInFlight <= 1

\* C36, amended: a tick does not look at whether an earlier refresh() has
\* returned.  With one or more calls in flight it is evaluated like any
\* other tick: it increments the round counter and starts one more
\* refresh() unless a termination condition holds.  Each call in flight has
\* its round, so there are never more calls in flight than rounds.
C36_TicksOverlap ==
    /\ refreshInFlight <= discoveryRounds
    /\ (/\ TickDue
        /\ refreshInFlight > 0
        /\ refreshInFlight < MaxRefreshInFlight
        /\ WouldRefresh)
       => ENABLED (/\ Tick
                   /\ discoveryRounds' = discoveryRounds + 1
                   /\ refreshInFlight' = refreshInFlight + 1)
    /\ (TickDue /\ refreshInFlight > 0 /\ ~WouldRefresh)
       => ENABLED (Tick /\ discoveryComplete')

\* round 2 was started while the refresh() of round 1 had not returned
C36_Witness ==
    /\ discoveryRounds = 2
    /\ refreshInFlight = 2
    /\ refreshCompleted = 0
    /\ errorLog = <<>>

\* a step that inserts a peer hands the append a record with the peer as
\* stored, the registry size after the insertion and the current round
RecordBuiltAtInsertion ==
    added' # added =>
        \E rec \in BagToSet(appending') :
            /\ appending' = appending (+) SetToBag({rec})
            /\ MapHas(discoveredPeers', getPeerId(rec.peer))
            /\ discoveredPeers'[getPeerId(rec.peer)] = rec.peer
            /\ ~MapHas(discoveredPeers, getPeerId(rec.peer))
            /\ rec.totalPeers = MapSize(discoveredPeers) + 1
            /\ rec.discoveryRound = discoveryRounds

\* a step that extends the log appends one pending record as it was built
RecordWrittenAsBuilt ==
    resultsFile' # resultsFile =>
        \E rec \in BagToSet(appending) :
            /\ resultsFile' = Append(resultsFile, rec)
            /\ appending' = appending (-) SetToBag({rec})

\* C37, as stated: the records are in the log in the order of their
\* insertions, with the size and round of the moment of insertion.  Without
\* removals the size grows by one with every insertion, so the order of the
\* insertions is the order of the sizes.
C37_Original ==
    /\ [][RecordBuiltAtInsertion /\ RecordWrittenAsBuilt]_vars
    /\ [](removals = 0 =>
             \A i, j \in DOMAIN resultsFile :
                 i < j => resultsFile[i].totalPeers < resultsFile[j].totalPeers)

\* C37, amended: each record carries the peer, the registry size (the peer
\* included) and the round of the moment of its insertion, and is written as
\* it was built, whatever happens while its handler is suspended.  The order
\* of the log is the order in which the appends return: two handlers
\* suspended at the same time may have their records written in either
\* order, and never more than once.
C37_RecordsAsBuilt ==
    /\ [][RecordBuiltAtInsertion /\ RecordWrittenAsBuilt]_vars
    /\ [](removals = 0 =>
             \A i, j \in DOMAIN resultsFile :
                 i # j => resultsFile[i].totalPeers # resultsFile[j].totalPeers)
    /\ [](\A rec \in LogRecords :
             /\ rec.totalPeers \in 1..added
             /\ rec.discoveryRound <= discoveryRounds)

\* B was inserted after A and its record was written before A's
C37_Witness ==
    /\ removals = 0
    /\ Len(resultsFile) = 2
    /\ resultsFile[1].totalPeers = 2
    /\ resultsFile[2].totalPeers = 1
    /\ resultsFile[1].peer = PeerB
    /\ resultsFile[2].peer = PeerA

\* the stored peers other than those with the identity of peer
Others(peers, peer) ==
    {p \in MapValues(peers) : Identity(p) # Identity(peer)}

\* C38: in every state, also when the run is Complete or stopped, a
\* peer:removed event is handled, and handling it deletes the entry with
\* the peer's identity if there is one, keeps every other entry, and leaves
\* the round counter, the snapshot, the two flags, the log and the pending
\* records as they are; for an identity that is not stored nothing changes.
C38_PeerRemovedFrame ==
    /\ [](\A peer \in PeerInputs :
             /\ (Stored(peer) /\ removals < budget.removes) =>
                   ENABLED (PeerRemoved(peer) /\ RegistrySize' = RegistrySize - 1)
             /\ ~Stored(peer) =>
                   /\ ENABLED PeerRemoved(peer)
                   /\ ~ENABLED (PeerRemoved(peer) /\ vars' # vars))
    /\ [][\A peer \in PeerInputs :
             PeerRemoved(peer) =>
                 /\ \A p \in MapValues(discoveredPeers') :
                       Identity(p) # Identity(peer)
                 /\ Others(discoveredPeers', peer) = Others(discoveredPeers, peer)
                 /\ UNCHANGED <<discoveryRounds, lastDiscoveryCount,
                                discoveryComplete, isStopping, stopMessage,
                                refreshInterval, resultsFile, appending,
                                bootstrapping, summary, mainPc>>]_vars

\* A was removed after the run had completed, stopped and written its
\* summary: the summary lists A, the log has A's line, the registry is empty
C38_Witness ==
    /\ mainPc = "done"
    /\ discoveryComplete
    /\ isStopping
    /\ summary.written
    /\ summary.summary = {PeerA}
    /\ Len(resultsFile) = 1
    /\ removals = 1
    /\ RegistrySize = 0

=============================================================================
